---- MODULE Spec2Model ----
(***************************************************************************)
(* List namespace of polars-ops (chunked_array/list/namespace.rs).         *)
(*                                                                         *)
(* A column is a sequence of rows.  Rust's Option<T> is written as a       *)
(* sequence of length at most one: None is << >> and Some(x) is << x >>.   *)
(* A list column is therefore a sequence of Option<row>, and a row is a    *)
(* sequence of Option<value> (the inner values carry their own validity).  *)
(* List columns are built by a builder, so the slot under a null row is    *)
(* empty (offsets[i+1] = offsets[i]).                                      *)
(*                                                                         *)
(* Every call of the trait is one action: Init draws the receiver, the     *)
(* action draws the remaining arguments and stores the PolarsResult in     *)
(* res.  A column is immutable, so a behaviour is one call.                *)
(***************************************************************************)
EXTENDS Integers, Sequences, FiniteSets, TLC

VARIABLES pc, dtype, ca, op, args, res

vars == <<pc, dtype, ca, op, args, res>>

----------------------------------------------------------------------------
(* Bounds *)

MaxRows == 2

MaxRowLen == 2

MaxOthers == 2

MaxIdxLen == 2

----------------------------------------------------------------------------
(* Option and PolarsResult *)

None == << >>

Some(x) == << x >>

IsSome(o) == Len(o) = 1

Unwrap(o) == o[1]

Ok(col) == [ok |-> TRUE, err |-> "", col |-> col]

Err(e) == [ok |-> FALSE, err |-> e, col |-> << >>]

\* a panic of the call (unwrap on None); no value is returned
Panic == [ok |-> FALSE, err |-> "panic", col |-> << >>]

NoResult == [ok |-> FALSE, err |-> "not called", col |-> << >>]

SeqsUpTo(S, n) == UNION {[1..k -> S] : k \in 0..n}

null_count(s) == Cardinality({i \in 1..Len(s) : ~IsSome(s[i])})

----------------------------------------------------------------------------
(* cast_rhs: operand length reconciliation.  The operands of the model     *)
(* already have the list dtype of the receiver, so the casts of lines      *)
(* 38-55 leave them unchanged.                                             *)

\* Series::new_from_index(0, length): the row at index 0 repeated
new_from_index(s, index, length) == [i \in 1..length |-> s[index + 1]]

\* one iteration of the loop of cast_rhs, lines 57-68
cast_rhs_unchecked(s, length, allow_broadcast) ==
    [ok |-> TRUE, err |-> "",
     s  |-> IF Len(s) = 1 /\ Len(s) # length /\ allow_broadcast
            THEN new_from_index(s, 0, length) ELSE s]

cast_rhs_one(s, length, allow_broadcast) ==
    IF Len(s) # length
    THEN IF Len(s) # 1
         THEN [ok |-> FALSE, err |-> "ShapeMismatch", s |-> s]
         ELSE [ok |-> TRUE, err |-> "",
               s  |-> IF allow_broadcast THEN new_from_index(s, 0, length) ELSE s]
    ELSE [ok |-> TRUE, err |-> "", s |-> s]

RECURSIVE cast_rhs(_, _, _)
cast_rhs(other, length, allow_broadcast) ==
    IF other = << >>
    THEN [ok |-> TRUE, err |-> "", other |-> << >>]
    ELSE LET one == cast_rhs_one(Head(other), length, allow_broadcast)
         IN  IF ~one.ok
             THEN [ok |-> FALSE, err |-> one.err, other |-> << >>]
             ELSE LET rest == cast_rhs(Tail(other), length, allow_broadcast)
                  IN  IF ~rest.ok THEN rest
                      ELSE [ok |-> TRUE, err |-> "", other |-> <<one.s>> \o rest.other]

----------------------------------------------------------------------------
(* lst_concat *)

\* ListChunked::full_null_with_dtype(name, length, dtype)
full_null_with_dtype(length) == [i \in 1..length |-> None]

\* lines 425-431: flat_map over lst.get(0), a null single row is dropped
RECURSIVE to_append_of(_)
to_append_of(other) ==
    IF other = << >> THEN << >>
    ELSE (IF Len(Head(other)) >= 1 THEN Head(other)[1] ELSE None)
         \o to_append_of(Tail(other))

\* lines 454-456: s.append(append) for every collected operand row
RECURSIVE append_all(_, _)
append_all(s, to_append) ==
    IF to_append = << >> THEN s
    ELSE append_all(s \o Head(to_append), Tail(to_append))

\* lines 432-468 with the null check of lines 433-439 left out
broadcast_path_unchecked(c, other, other_len, length) ==
    LET to_append == to_append_of(other)
    IN  Ok([i \in 1..Len(c) |->
              IF IsSome(c[i]) THEN Some(append_all(Unwrap(c[i]), to_append)) ELSE None])

\* lines 425-468: the broadcast path after cast_rhs
broadcast_path(c, other, other_len, length) ==
    LET to_append == to_append_of(other)
    IN  IF Len(to_append) # other_len
        THEN Ok(full_null_with_dtype(length))
        ELSE Ok([i \in 1..Len(c) |->
                   IF IsSome(c[i]) THEN Some(append_all(Unwrap(c[i]), to_append)) ELSE None])

\* every operand iterator still has a row: it.next().unwrap() does not panic
all_have_next(other, iters) == \A k \in 1..Len(other) : iters[k] < Len(other[k])

\* lines 496-498 left out: the operand iterators stay where they are
skip_null_row_stalled(iters) == iters

\* lines 496-498: the operand iterators advance past a null receiver row
skip_null_row(iters) == [k \in 1..Len(iters) |-> iters[k] + 1]

\* lines 503-515 with the else branch of lines 511-513 left out: a null
\* operand row is passed over and the row is still built
RECURSIVE append_operands_nulls_skipped(_, _, _, _, _)
append_operands_nulls_skipped(other, iters, k, acc, has_nulls) ==
    IF k > Len(other) THEN [acc |-> acc, has_nulls |-> has_nulls]
    ELSE LET s == other[k][iters[k] + 1]
         IN  append_operands_nulls_skipped(other, iters, k + 1,
                                           IF IsSome(s) THEN acc \o Unwrap(s) ELSE acc,
                                           has_nulls)

\* lines 503-515: the operand rows at the iterators' positions are appended
\* to acc until the first null one
RECURSIVE append_operands(_, _, _, _, _)
append_operands(other, iters, k, acc, has_nulls) ==
    IF k > Len(other) THEN [acc |-> acc, has_nulls |-> has_nulls]
    ELSE LET s == other[k][iters[k] + 1]
         IN  IF IsSome(s)
             THEN append_operands(other, iters, k + 1,
                                  IF has_nulls THEN acc ELSE acc \o Unwrap(s), has_nulls)
             ELSE append_operands(other, iters, k + 1, acc, TRUE)

\* lines 490-530: n rows are built, iters[k] is the position of operand k's iterator
RECURSIVE general_loop(_, _, _, _, _)
general_loop(c, other, n, iters, builder) ==
    IF n = Len(c) THEN Ok(builder)
    ELSE IF ~all_have_next(other, iters) THEN Panic
    ELSE IF ~IsSome(c[n + 1])
         THEN general_loop(c, other, n + 1, skip_null_row(iters), Append(builder, None))
         ELSE LET r == append_operands(other, iters, 1, Unwrap(c[n + 1]), FALSE)
              IN  general_loop(c, other, n + 1,
                               [k \in 1..Len(iters) |-> iters[k] + 1],
                               Append(builder, IF r.has_nulls THEN None ELSE Some(r.acc)))

\* line 423: every operand has length 1 and the receiver's length is not 1
is_broadcast_path(c, other) ==
    (\A k \in 1..Len(other) : Len(other[k]) = 1) /\ Len(c) # 1

lst_concat(c, other) ==
    LET other_len == Len(other)
        length    == Len(c)
    IN  IF is_broadcast_path(c, other)
        THEN LET r == cast_rhs(other, length, FALSE)
             IN  IF ~r.ok THEN Err(r.err)
                 ELSE broadcast_path(c, r.other, other_len, length)
        ELSE LET r == cast_rhs(other, length, TRUE)
             IN  IF ~r.ok THEN Err(r.err)
                 ELSE general_loop(c, r.other, 0, [k \in 1..other_len |-> 0], << >>)

----------------------------------------------------------------------------
(* Inputs of lst_concat *)

\* rows of the receiver of lst_concat
ConcatRows ==
    {None, Some(<< >>), Some(<<Some(1)>>), Some(<<Some(1), Some(2)>>)}

ConcatReceivers == SeqsUpTo(ConcatRows, MaxRows)

\* operand k holds the value 10 + k, so that the operand a value came from shows
OperandValue(k) == 10 + k

OperandShapes == SeqsUpTo(SeqsUpTo(BOOLEAN, MaxRows), MaxOthers)

OperandsOf(shape) ==
    [k \in 1..Len(shape) |->
        [i \in 1..Len(shape[k]) |->
            IF shape[k][i] THEN Some(<<Some(OperandValue(k))>>) ELSE None]]

InitConcat ==
    /\ pc = "ready"
    /\ dtype = "Int64"
    /\ ca \in ConcatReceivers
    /\ op = "none"
    /\ args = << >>
    /\ res = NoResult

LstConcat ==
    /\ pc = "ready"
    /\ \E shape \in OperandShapes :
          LET other == OperandsOf(shape)
          IN  /\ args' = [other |-> other]
              /\ res' = lst_concat(ca, other)
    /\ op' = "lst_concat"
    /\ pc' = "done"
    /\ UNCHANGED <<dtype, ca>>

NextConcat == LstConcat

SpecConcat == InitConcat /\ [][NextConcat]_vars

----------------------------------------------------------------------------
(* lst_take.  An index column is [nested, dtype, vals]: a flat column of   *)
(* Option<integer> of the given dtype, or a list column whose rows are     *)
(* Option<sequence of Option<integer>> with that inner dtype.  IDX_DTYPE   *)
(* is UInt32 (the build without big_idx).                                  *)

IsSigned(dt) == dt \in {"Int8", "Int16", "Int32", "Int64"}

Min2(a, b) == IF a <= b THEN a ELSE b

\* Series::cast(&IDX_DTYPE): a value that does not fit u32 becomes null (the
\* indices of the model are far below u32::MAX, so only a negative one does not fit)
cast_idx_dtype(idx) ==
    [k \in 1..Len(idx) |->
        IF IsSome(idx[k]) /\ Unwrap(idx[k]) >= 0 THEN idx[k] ELSE None]

\* Series::min::<i64>(): None when no entry is non-null
series_min(idx) ==
    LET nn == {Unwrap(idx[k]) : k \in {j \in 1..Len(idx) : IsSome(idx[j])}}
    IN  IF nn = {} THEN None ELSE Some(CHOOSE m \in nn : \A x \in nn : m <= x)

\* IndexToUsize::negative_to_usize(len): a negative index counts from the
\* end; an index outside [0, len) after that has no position
negative_to_usize(i, len) ==
    LET effective == IF i >= 0 THEN i ELSE len + i
    IN  IF effective >= 0 /\ effective < len THEN Some(effective) ELSE None

cast_signed_index_ca(idx, len) ==
    [k \in 1..Len(idx) |->
        IF IsSome(idx[k]) THEN negative_to_usize(Unwrap(idx[k]), len) ELSE None]

cast_unsigned_index_ca(idx, len) ==
    [k \in 1..Len(idx) |->
        IF IsSome(idx[k])
        THEN (IF Unwrap(idx[k]) >= len THEN None ELSE idx[k])
        ELSE None]

\* lines 581-638 of cast_index: the normalised index column
cast_index_out(idx, dt, len, null_on_oob) ==
    CASE dt \in {"UInt32", "UInt64"} ->
             IF null_on_oob THEN cast_unsigned_index_ca(idx, len)
             ELSE cast_idx_dtype(idx)
      [] dt \in {"UInt8", "UInt16"} -> cast_idx_dtype(idx)
      [] IsSigned(dt) -> cast_signed_index_ca(idx, len)

\* cast_index without the polars_ensure of lines 639-642
cast_index_unchecked(idx, dt, len, null_on_oob) ==
    Ok(cast_index_out(idx, dt, len, null_on_oob))

cast_index(idx, dt, len, null_on_oob) ==
    LET idx_null_count == null_count(idx)
        out == cast_index_out(idx, dt, len, null_on_oob)
    IN  IF null_count(out) = idx_null_count \/ null_on_oob
        THEN Ok(out)
        ELSE Err("take indices are out of bounds")

\* Series::take(&IdxCa): the bounds of the indices are checked, a null index
\* takes a null
series_take(s, idx) ==
    IF \E k \in 1..Len(idx) : IsSome(idx[k]) /\ Unwrap(idx[k]) >= Len(s)
    THEN Err("take indices are out of bounds")
    ELSE Ok([k \in 1..Len(idx) |->
               IF IsSome(idx[k]) THEN s[Unwrap(idx[k]) + 1] ELSE None])

take_series(s, idx, dt, null_on_oob) ==
    LET len == Len(s)
        r   == cast_index(idx, dt, len, null_on_oob)
    IN  IF ~r.ok THEN r ELSE series_take(s, r.col)

\* collect::<PolarsResult<ListChunked>>(): the first error, or the rows
try_collect(results) ==
    LET bad == {i \in 1..Len(results) : ~results[i].ok}
    IN  IF bad # {}
        THEN Err(results[CHOOSE i \in bad : \A j \in bad : i <= j].err)
        ELSE Ok([i \in 1..Len(results) |-> results[i].col])

\* the calls of take_series index_typed_index makes, lines 324-340
index_typed_calls(list_ca, idx) ==
    LET cast == cast_idx_dtype(idx)
    IN  [i \in 1..Len(list_ca) |->
            IF IsSome(list_ca[i])
            THEN Some([s |-> Unwrap(list_ca[i]), idx |-> cast, dt |-> "UInt32"])
            ELSE None]

\* lines 366-385 with idx.min() unwrapped to 0 when every index is null
take_calls_min_defaulted(list_ca, idx) ==
    IF idx.nested
    THEN Ok([i \in 1..Min2(Len(list_ca), Len(idx.vals)) |->
               IF IsSome(list_ca[i]) /\ IsSome(idx.vals[i])
               THEN Some([s |-> Unwrap(list_ca[i]), idx |-> Unwrap(idx.vals[i]),
                          dt |-> idx.dtype])
               ELSE None])
    ELSE IF idx.dtype \in {"UInt32", "UInt64"}
    THEN Ok(index_typed_calls(list_ca, idx.vals))
    ELSE IF IsSigned(idx.dtype)
    THEN LET min == series_min(idx.vals)
         IN  IF ~IsSome(min) \/ Unwrap(min) >= 0
             THEN Ok(index_typed_calls(list_ca, idx.vals))
             ELSE Ok([i \in 1..Len(list_ca) |->
                        IF IsSome(list_ca[i])
                        THEN Some([s |-> Unwrap(list_ca[i]), idx |-> idx.vals,
                                   dt |-> idx.dtype])
                        ELSE None])
    ELSE Err("cannot use dtype as an index")

\* the match of lines 343-387: for every output row the call of take_series
\* that builds it (None for a row that stays null), or the error of the match
take_calls(list_ca, idx) ==
    IF idx.nested
    THEN \* lines 344-364: amortized_iter().zip(idx_ca.into_iter())
         Ok([i \in 1..Min2(Len(list_ca), Len(idx.vals)) |->
               IF IsSome(list_ca[i]) /\ IsSome(idx.vals[i])
               THEN Some([s |-> Unwrap(list_ca[i]), idx |-> Unwrap(idx.vals[i]),
                          dt |-> idx.dtype])
               ELSE None])
    ELSE IF idx.dtype \in {"UInt32", "UInt64"}
    THEN Ok(index_typed_calls(list_ca, idx.vals))
    ELSE IF IsSigned(idx.dtype)
    THEN LET min == series_min(idx.vals)
         IN  IF IsSome(min)
             THEN IF Unwrap(min) >= 0
                  THEN Ok(index_typed_calls(list_ca, idx.vals))
                  ELSE Ok([i \in 1..Len(list_ca) |->
                             IF IsSome(list_ca[i])
                             THEN Some([s |-> Unwrap(list_ca[i]), idx |-> idx.vals,
                                        dt |-> idx.dtype])
                             ELSE None])
             ELSE Err("all indices are null")
    ELSE Err("cannot use dtype as an index")

lst_take(list_ca, idx, null_on_oob) ==
    LET calls == take_calls(list_ca, idx)
    IN  IF ~calls.ok THEN calls
        ELSE try_collect(
               [i \in 1..Len(calls.col) |->
                   IF IsSome(calls.col[i])
                   THEN LET c == Unwrap(calls.col[i])
                            r == take_series(c.s, c.idx, c.dt, null_on_oob)
                        IN  IF r.ok THEN Ok(Some(r.col)) ELSE r
                   ELSE Ok(None)])

----------------------------------------------------------------------------
(* Inputs of lst_take *)

\* a row of length n holds 1..n, so that the position of a value shows
TakeRows == {None} \cup {Some([j \in 1..n |-> Some(j)]) : n \in 0..MaxRowLen}

TakeReceivers == SeqsUpTo(TakeRows, MaxRows)

SignedIdxVals == {None} \cup {Some(v) : v \in (0 - (MaxRowLen + 1))..MaxRowLen}

UnsignedIdxVals == {None} \cup {Some(v) : v \in 0..MaxRowLen}

IdxValsOf(dt) == IF IsSigned(dt) THEN SignedIdxVals ELSE UnsignedIdxVals

IdxDtypes == {"Int64", "UInt32", "UInt8"}

FlatIdx(dt) ==
    {[nested |-> FALSE, dtype |-> dt, vals |-> v] : v \in SeqsUpTo(IdxValsOf(dt), MaxIdxLen)}

NestedIdxRows(dt) == {None} \cup {Some(r) : r \in SeqsUpTo(IdxValsOf(dt), 1)}

NestedIdx(dt) ==
    {[nested |-> TRUE, dtype |-> dt, vals |-> v] : v \in SeqsUpTo(NestedIdxRows(dt), MaxRows)}

TakeIdx == UNION {FlatIdx(dt) \cup NestedIdx(dt) : dt \in IdxDtypes}

InitTake ==
    /\ pc = "ready"
    /\ dtype = "Int64"
    /\ ca \in TakeReceivers
    /\ op = "none"
    /\ args = << >>
    /\ res = NoResult

LstTake ==
    /\ pc = "ready"
    /\ \E idx \in TakeIdx, null_on_oob \in BOOLEAN :
          /\ args' = [idx |-> idx, null_on_oob |-> null_on_oob]
          /\ res' = lst_take(ca, idx, null_on_oob)
    /\ op' = "lst_take"
    /\ pc' = "done"
    /\ UNCHANGED <<dtype, ca>>

NextTake == LstTake

SpecTake == InitTake /\ [][NextTake]_vars

----------------------------------------------------------------------------
(* lst_join.  A string is a sequence of characters.                        *)

NullText == <<"n", "u", "l", "l">>

unwrap_or(o, default) == IF IsSome(o) THEN Unwrap(o) ELSE default

saturating_sub(a, b) == IF a >= b THEN a - b ELSE 0

\* lines 96-99: every value, then the separator, is written to buf
RECURSIVE write_values(_, _, _)
write_values(buf, vals, separator) ==
    IF vals = << >> THEN buf
    ELSE write_values(buf \o unwrap_or(Head(vals), NullText) \o separator,
                      Tail(vals), separator)

\* lines 90-103 without the buf.clear() of line 92
join_row_uncleared(buf, s, separator) ==
    LET written == write_values(buf, s, separator)
    IN  [buf |-> written,
         val |-> SubSeq(written, 1, saturating_sub(Len(written), Len(separator)))]

\* lines 90-103: the closure applied to a non-null row; buf is the buffer
\* left by the rows before it
join_row(buf, s, separator) ==
    LET cleared == << >>
        written == write_values(cleared, s, separator)
    IN  [buf |-> written,
         val |-> SubSeq(written, 1, saturating_sub(Len(written), Len(separator)))]

\* lines 89-105: n rows are appended to the builder
RECURSIVE join_rows(_, _, _, _, _)
join_rows(c, n, buf, separator, builder) ==
    IF n = Len(c) THEN builder
    ELSE IF IsSome(c[n + 1])
         THEN LET r == join_row(buf, Unwrap(c[n + 1]), separator)
              IN  join_rows(c, n + 1, r.buf, separator, Append(builder, Some(r.val)))
         ELSE join_rows(c, n + 1, buf, separator, Append(builder, None))

lst_join(c, inner_dtype, separator) ==
    IF inner_dtype = "Utf8"
    THEN Ok(join_rows(c, 0, << >>, separator, << >>))
    ELSE Err("InvalidOperation")

----------------------------------------------------------------------------
(* Inputs of lst_join *)

Utf8Values == {None, Some(<< >>), Some(<<"a">>)}

Utf8Rows == {None} \cup {Some(r) : r \in SeqsUpTo(Utf8Values, MaxRowLen)}

Utf8Receivers == SeqsUpTo(Utf8Rows, MaxRows)

Separators == {<< >>, <<",">>, <<"a", ";">>}

InitJoin ==
    /\ pc = "ready"
    /\ \/ dtype = "Utf8" /\ ca \in Utf8Receivers
       \/ dtype = "Int64" /\ ca \in TakeReceivers
    /\ op = "none"
    /\ args = << >>
    /\ res = NoResult

LstJoin ==
    /\ pc = "ready"
    /\ \E separator \in Separators :
          /\ args' = [separator |-> separator]
          /\ res' = lst_join(ca, dtype, separator)
    /\ op' = "lst_join"
    /\ pc' = "done"
    /\ UNCHANGED <<dtype, ca>>

NextJoin == LstJoin

SpecJoin == InitJoin /\ [][NextJoin]_vars

----------------------------------------------------------------------------
(* Reductions and row-wise transforms.  The Series functions they apply to *)
(* a row are modelled for an integer inner type.                           *)

\* the non-null values of a row, in order
RECURSIVE non_null_values(_)
non_null_values(s) ==
    IF s = << >> THEN << >>
    ELSE (IF IsSome(Head(s)) THEN <<Unwrap(Head(s))>> ELSE << >>)
         \o non_null_values(Tail(s))

RECURSIVE sum_of(_)
sum_of(v) == IF v = << >> THEN 0 ELSE Head(v) + sum_of(Tail(v))

\* Series::sum(): None when the row has no non-null value
series_sum(s) ==
    LET v == non_null_values(s) IN IF v = << >> THEN None ELSE Some(sum_of(v))

\* Series::mean(): the exact quotient is kept as <<sum, count>>
series_mean(s) ==
    LET v == non_null_values(s)
    IN  IF v = << >> THEN None ELSE Some(<<sum_of(v), Len(v)>>)

\* Series::arg_min() / arg_max(): the first position of the extremal non-null value
series_arg_min(s) ==
    LET nn == {k \in 1..Len(s) : IsSome(s[k])}
    IN  IF nn = {} THEN None
        ELSE Some((CHOOSE k \in nn :
                      /\ \A j \in nn : Unwrap(s[k]) <= Unwrap(s[j])
                      /\ \A j \in nn : Unwrap(s[j]) = Unwrap(s[k]) => k <= j) - 1)

series_arg_max(s) ==
    LET nn == {k \in 1..Len(s) : IsSome(s[k])}
    IN  IF nn = {} THEN None
        ELSE Some((CHOOSE k \in nn :
                      /\ \A j \in nn : Unwrap(s[k]) >= Unwrap(s[j])
                      /\ \A j \in nn : Unwrap(s[j]) = Unwrap(s[k]) => k <= j) - 1)

series_reverse(s) == [k \in 1..Len(s) |-> s[Len(s) + 1 - k]]

RECURSIVE sorted_values(_)
sorted_values(v) ==
    IF v = << >> THEN << >>
    ELSE LET k == CHOOSE k \in 1..Len(v) : \A j \in 1..Len(v) : v[k] <= v[j]
         IN  <<v[k]>> \o sorted_values(SubSeq(v, 1, k - 1) \o SubSeq(v, k + 1, Len(v)))

\* Series::sort_with(options): the nulls first, then the values in the order asked
series_sort_with(s, descending) ==
    LET v      == sorted_values(non_null_values(s))
        nulls  == [k \in 1..null_count(s) |-> None]
        values == [k \in 1..Len(v) |-> Some(IF descending THEN v[Len(v) + 1 - k] ELSE v[k])]
    IN  nulls \o values

\* Series::shift(periods): the vacated positions are null
series_shift(s, periods) ==
    [k \in 1..Len(s) |->
        IF k - periods >= 1 /\ k - periods <= Len(s) THEN s[k - periods] ELSE None]

\* Series::slice(offset, length): a negative offset counts from the end
series_slice(s, offset, length) ==
    LET len   == Len(s)
        abs   == IF offset < 0 THEN 0 - offset ELSE offset
        start == IF offset < 0 THEN (IF abs <= len THEN len - abs ELSE 0)
                 ELSE (IF abs <= len THEN abs ELSE len)
        take  == IF offset < 0 THEN (IF abs <= len THEN Min2(length, abs) ELSE Min2(length, len))
                 ELSE (IF abs <= len THEN Min2(length, len - abs) ELSE 0)
    IN  SubSeq(s, start + 1, start + take)

has_inner_nulls(c) ==
    \E i \in 1..Len(c) :
        IsSome(c[i]) /\ \E k \in 1..Len(Unwrap(c[i])) : ~IsSome(Unwrap(c[i])[k])

\* sum_list_numerical / mean_list_numerical: the kernels over offsets used
\* when no inner value is null; a null row stays null
sum_list_numerical(c) ==
    [i \in 1..Len(c) |->
        IF IsSome(c[i]) THEN Some(sum_of(non_null_values(Unwrap(c[i])))) ELSE None]

mean_list_numerical(c) ==
    [i \in 1..Len(c) |-> IF IsSome(c[i]) THEN series_mean(Unwrap(c[i])) ELSE None]

\* lines 121-183 and 199-207: amortized_iter().map(|s| s.and_then(...))
lst_sum_inner(c) ==
    [i \in 1..Len(c) |-> IF IsSome(c[i]) THEN series_sum(Unwrap(c[i])) ELSE None]

lst_mean_inner(c) ==
    [i \in 1..Len(c) |-> IF IsSome(c[i]) THEN series_mean(Unwrap(c[i])) ELSE None]

lst_sum(c) ==
    IF has_inner_nulls(c) THEN Ok(lst_sum_inner(c)) ELSE Ok(sum_list_numerical(c))

lst_mean(c) ==
    IF has_inner_nulls(c) THEN Ok(lst_mean_inner(c)) ELSE Ok(mean_list_numerical(c))

lst_arg_min(c) ==
    Ok([i \in 1..Len(c) |-> IF IsSome(c[i]) THEN series_arg_min(Unwrap(c[i])) ELSE None])

lst_arg_max(c) ==
    Ok([i \in 1..Len(c) |-> IF IsSome(c[i]) THEN series_arg_max(Unwrap(c[i])) ELSE None])

lst_sort(c, descending) ==
    Ok([i \in 1..Len(c) |->
          IF IsSome(c[i]) THEN Some(series_sort_with(Unwrap(c[i]), descending)) ELSE None])

lst_reverse(c) ==
    Ok([i \in 1..Len(c) |->
          IF IsSome(c[i]) THEN Some(series_reverse(Unwrap(c[i]))) ELSE None])

lst_shift(c, periods) ==
    Ok([i \in 1..Len(c) |->
          IF IsSome(c[i]) THEN Some(series_shift(Unwrap(c[i]), periods)) ELSE None])

lst_slice(c, offset, length) ==
    Ok([i \in 1..Len(c) |->
          IF IsSome(c[i]) THEN Some(series_slice(Unwrap(c[i]), offset, length)) ELSE None])

\* the chunks of the column: two arrays, the first of `split` rows
chunks_of(c, split) == <<SubSeq(c, 1, split), SubSeq(c, split + 1, Len(c))>>

\* the offsets buffer of a list array: the slot of a null row is empty
RECURSIVE offsets_of(_)
offsets_of(arr) ==
    IF arr = << >> THEN <<0>>
    ELSE LET front == offsets_of(SubSeq(arr, 1, Len(arr) - 1))
             row   == arr[Len(arr)]
         IN  Append(front, front[Len(front)] + (IF IsSome(row) THEN Len(Unwrap(row)) ELSE 0))

\* lines 294-301: the differences of consecutive offsets of every chunk
RECURSIVE lengths_of_chunks(_)
lengths_of_chunks(chunks) ==
    IF chunks = << >> THEN << >>
    ELSE LET offsets == offsets_of(Head(chunks))
         IN  [j \in 1..(Len(offsets) - 1) |-> offsets[j + 1] - offsets[j]]
             \o lengths_of_chunks(Tail(chunks))

\* line 302: IdxCa::from_vec takes plain values, every entry is valid
lst_lengths(chunks) ==
    LET lengths == lengths_of_chunks(chunks)
    IN  Ok([i \in 1..Len(lengths) |-> Some(lengths[i])])

----------------------------------------------------------------------------
(* Every operation, on integer and on string receivers *)

Int64Values == {None, Some(1), Some(2)}

Int64Rows == {None} \cup {Some(r) : r \in SeqsUpTo(Int64Values, MaxRowLen)}

Int64Receivers == SeqsUpTo(Int64Rows, MaxRows)

Init ==
    /\ pc = "ready"
    /\ \/ dtype = "Int64" /\ ca \in Int64Receivers
       \/ dtype = "Utf8" /\ ca \in Utf8Receivers
    /\ op = "none"
    /\ args = << >>
    /\ res = NoResult

Called(name, a, r) ==
    /\ op' = name
    /\ args' = a
    /\ res' = r
    /\ pc' = "done"
    /\ UNCHANGED <<dtype, ca>>

LstSum == pc = "ready" /\ dtype = "Int64" /\ Called("lst_sum", << >>, lst_sum(ca))

LstMean == pc = "ready" /\ dtype = "Int64" /\ Called("lst_mean", << >>, lst_mean(ca))

LstArgMin == pc = "ready" /\ dtype = "Int64" /\ Called("lst_arg_min", << >>, lst_arg_min(ca))

LstArgMax == pc = "ready" /\ dtype = "Int64" /\ Called("lst_arg_max", << >>, lst_arg_max(ca))

LstSort ==
    /\ pc = "ready" /\ dtype = "Int64"
    /\ \E descending \in BOOLEAN :
          Called("lst_sort", [descending |-> descending], lst_sort(ca, descending))

LstReverse == pc = "ready" /\ Called("lst_reverse", << >>, lst_reverse(ca))

LstShift ==
    /\ pc = "ready"
    /\ \E periods \in (0 - MaxRowLen)..MaxRowLen :
          Called("lst_shift", [periods |-> periods], lst_shift(ca, periods))

LstSlice ==
    /\ pc = "ready"
    /\ \E offset \in (0 - MaxRowLen)..MaxRowLen, length \in 0..MaxRowLen :
          Called("lst_slice", [offset |-> offset, length |-> length],
                 lst_slice(ca, offset, length))

LstLengths ==
    /\ pc = "ready"
    /\ \E split \in 0..Len(ca) :
          Called("lst_lengths", [split |-> split], lst_lengths(chunks_of(ca, split)))

LstTakeAny == dtype = "Int64" /\ LstTake

LstConcatAny == dtype = "Int64" /\ LstConcat

Next ==
    \/ LstJoin
    \/ LstSum
    \/ LstMean
    \/ LstArgMin
    \/ LstArgMax
    \/ LstSort
    \/ LstReverse
    \/ LstShift
    \/ LstSlice
    \/ LstLengths
    \/ LstTakeAny
    \/ LstConcatAny

Spec == Init /\ [][Next]_vars

----------------------------------------------------------------------------
(* lst_get *)

\* polars_arrow::kernels::list::sublist_get: the element at idx of every
\* row of one list array, counted from the row's end when idx is negative;
\* null where the row is null or the position is outside the row
sublist_get(arr, idx) ==
    [i \in 1..Len(arr) |->
        IF ~IsSome(arr[i]) THEN None
        ELSE LET row       == Unwrap(arr[i])
                 effective == IF idx >= 0 THEN idx ELSE Len(row) + idx
             IN  IF effective >= 0 /\ effective < Len(row)
                 THEN row[effective + 1]
                 ELSE None]

\* Series::try_from((name, chunks)): the arrays become the chunks of one column
RECURSIVE series_from_chunks(_)
series_from_chunks(arrays) ==
    IF arrays = << >> THEN << >>
    ELSE Head(arrays) \o series_from_chunks(Tail(arrays))

\* lines 309-317 with .next() in place of .map(): only the first chunk is read
lst_get_first_chunk(chunks, idx) ==
    Ok(series_from_chunks(<<sublist_get(Head(chunks), idx)>>))

\* lines 309-317: sublist_get on every chunk; the arrays already have the
\* inner dtype, so the cast of line 317 leaves them unchanged
lst_get(chunks, idx) ==
    Ok(series_from_chunks([k \in 1..Len(chunks) |-> sublist_get(chunks[k], idx)]))

\* a row of length n holds j or null at position j
GetRowsOfLen(n) == {[j \in 1..n |-> IF j \in valid THEN Some(j) ELSE None] : valid \in SUBSET (1..n)}

GetRows == {None} \cup {Some(r) : r \in UNION {GetRowsOfLen(n) : n \in 0..MaxRowLen}}

GetReceivers == SeqsUpTo(GetRows, MaxRows)

InitGet ==
    /\ pc = "ready"
    /\ dtype = "Int64"
    /\ ca \in GetReceivers
    /\ op = "none"
    /\ args = << >>
    /\ res = NoResult

LstGet ==
    /\ pc = "ready"
    /\ \E idx \in (0 - (MaxRowLen + 1))..(MaxRowLen + 1), split \in 0..Len(ca) :
          /\ args' = [idx |-> idx, split |-> split]
          /\ res' = lst_get(chunks_of(ca, split), idx)
    /\ op' = "lst_get"
    /\ pc' = "done"
    /\ UNCHANGED <<dtype, ca>>

NextGet == LstGet

SpecGet == InitGet /\ [][NextGet]_vars

----------------------------------------------------------------------------
(* Claims about lst_concat *)

\* the row of operand k paired with receiver row i: a length-1 operand
\* counts as its single row at every position
OperandRowAt(other, k, i) == IF Len(other[k]) = 1 THEN other[k][1] ELSE other[k][i]

AnyOperandNullAt(other, i) ==
    \E k \in 1..Len(other) : ~IsSome(OperandRowAt(other, k, i))

RECURSIVE OperandRowsFrom(_, _, _)
OperandRowsFrom(other, i, k) ==
    IF k > Len(other) THEN << >>
    ELSE Unwrap(OperandRowAt(other, k, i)) \o OperandRowsFrom(other, i, k + 1)

ExpectedConcatRow(c, other, i) ==
    IF ~IsSome(c[i]) \/ AnyOperandNullAt(other, i) THEN None
    ELSE Some(Unwrap(c[i]) \o OperandRowsFrom(other, i, 1))

ConcatDone == pc = "done" /\ op = "lst_concat"

GeneralCase ==
    \/ Len(ca) = 1
    \/ \E k \in 1..Len(args.other) : Len(args.other[k]) = Len(ca) /\ Len(ca) # 1

BroadcastCase ==
    /\ Len(ca) # 1
    /\ \A k \in 1..Len(args.other) : Len(args.other[k]) = 1

\* C1: on the general path of lst_concat (some operand has the receiver's
\* length, or the receiver has length 1) every output row i is null when the
\* receiver's row i or any operand's row i is null, and otherwise is the
\* receiver's row i followed by every operand's row i in operand order; null
\* rows at earlier positions do not shift the pairing.
C1_GeneralPathRows ==
    (ConcatDone /\ GeneralCase /\ res.ok) =>
        /\ Len(res.col) = Len(ca)
        /\ \A i \in 1..Len(ca) : res.col[i] = ExpectedConcatRow(ca, args.other, i)

\* a null receiver row comes before a non-null one, the first operand has the
\* receiver's length with a null row under the null receiver row, the second
\* operand is broadcast, and the later row got both operands' values
C1_Witness ==
    /\ ConcatDone /\ res.ok
    /\ Len(ca) = 2 /\ ~IsSome(ca[1]) /\ ca[2] = Some(<<Some(1)>>)
    /\ Len(args.other) = 2
    /\ Len(args.other[1]) = 2 /\ ~IsSome(args.other[1][1]) /\ IsSome(args.other[1][2])
    /\ Len(args.other[2]) = 1
    /\ res.col = <<None, Some(<<Some(1), Some(11), Some(12)>>)>>

LengthsReconcile ==
    \A k \in 1..Len(args.other) : Len(args.other[k]) \in {Len(ca), 1}

\* C9: lst_concat succeeds exactly when every operand has the receiver's
\* length or length 1; any other operand length gives ShapeMismatch and no
\* column; on success an operand of the receiver's length contributes its
\* row i to row i and a length-1 operand contributes its single row to every
\* row.
C9_LengthReconciliation ==
    ConcatDone =>
        /\ res.ok <=> LengthsReconcile
        /\ ~res.ok => (res.err = "ShapeMismatch" /\ res.col = << >>)
        /\ res.ok =>
              /\ Len(res.col) = Len(ca)
              /\ \A i \in 1..Len(ca) :
                    IsSome(res.col[i]) =>
                        Len(Unwrap(res.col[i]))
                            = Len(Unwrap(ca[i])) + Len(OperandRowsFrom(args.other, i, 1))

\* a length-1 operand is accepted, then an operand of length 0 meets a
\* receiver of length 2
C9_Witness ==
    /\ ConcatDone
    /\ Len(ca) = 2
    /\ Len(args.other) = 2
    /\ Len(args.other[1]) = 1 /\ Len(args.other[2]) = 0
    /\ res = Err("ShapeMismatch")

\* an operand of the receiver's length and a broadcast one are both used
C9_WitnessAccepted ==
    /\ ConcatDone /\ res.ok
    /\ Len(ca) = 2 /\ IsSome(ca[1]) /\ IsSome(ca[2])
    /\ Len(args.other) = 2
    /\ Len(args.other[1]) = 2 /\ Len(args.other[2]) = 1
    /\ IsSome(res.col[1]) /\ IsSome(res.col[2])

----------------------------------------------------------------------------
(* Claims about lst_take *)

TakeDone == pc = "done" /\ op = "lst_take"

\* the index dtypes the match of lst_take does not reject
IdxAccepted ==
    \/ args.idx.nested
    \/ args.idx.dtype \in {"UInt32", "UInt64"}
    \/ IsSigned(args.idx.dtype)

FlatSignedAllNull ==
    /\ ~args.idx.nested
    /\ IsSigned(args.idx.dtype)
    /\ \A k \in 1..Len(args.idx.vals) : ~IsSome(args.idx.vals[k])

\* the indices applied to receiver row i
IdxFor(i) == IF args.idx.nested THEN args.idx.vals[i] ELSE Some(args.idx.vals)

\* the receiver rows an index sequence is applied to
TakenRows ==
    {i \in 1..(IF args.idx.nested THEN Min2(Len(ca), Len(args.idx.vals)) ELSE Len(ca)) :
        IsSome(ca[i]) /\ IsSome(IdxFor(i))}

OutOfBounds(v, len) == v >= len \/ v < 0 - len

OOBExists ==
    \E i \in TakenRows :
        \E k \in 1..Len(Unwrap(IdxFor(i))) :
            /\ IsSome(Unwrap(IdxFor(i))[k])
            /\ OutOfBounds(Unwrap(Unwrap(IdxFor(i))[k]), Len(Unwrap(ca[i])))

\* what an index selects from the row s
Select(s, o) ==
    IF ~IsSome(o) THEN None
    ELSE IF OutOfBounds(Unwrap(o), Len(s)) THEN None
    ELSE IF Unwrap(o) >= 0 THEN s[Unwrap(o) + 1]
    ELSE s[Len(s) + Unwrap(o) + 1]

\* C3: a successful lst_take, lst_concat or lst_join returns a column of the
\* receiver's length.
C3_OutputLength ==
    (pc = "done" /\ op \in {"lst_take", "lst_concat", "lst_join"} /\ res.ok) =>
        Len(res.col) = Len(ca)

\* C6: with null_on_oob = true lst_take succeeds for every accepted index
\* dtype, flat or nested, and every index selects element i (0 <= i < len),
\* element len + i (-len <= i < 0) or null (otherwise) of its row.
C6_NullOnOob ==
    (TakeDone /\ args.null_on_oob /\ IdxAccepted /\ ~FlatSignedAllNull) =>
        /\ res.ok
        /\ \A i \in TakenRows :
              res.col[i] = Some([k \in 1..Len(Unwrap(IdxFor(i))) |->
                                   Select(Unwrap(ca[i]), Unwrap(IdxFor(i))[k])])

StrictTake == TakeDone /\ ~args.null_on_oob /\ IdxAccepted

ErrOOB == res = Err("take indices are out of bounds")

\* index normalisation (cast_index) turned a non-null index into null in
\* some call of take_series
NormNulled ==
    LET calls == take_calls(ca, args.idx)
    IN  /\ calls.ok
        /\ \E i \in 1..Len(calls.col) :
              /\ IsSome(calls.col[i])
              /\ LET c == Unwrap(calls.col[i])
                 IN  null_count(cast_index_out(c.idx, c.dt, Len(c.s), FALSE))
                         > null_count(c.idx)

C8_AllNullIndices ==
    (TakeDone /\ FlatSignedAllNull) => res = Err("all indices are null")

C8_Witness ==
    /\ TakeDone /\ FlatSignedAllNull
    /\ args.null_on_oob
    /\ Len(args.idx.vals) = 2
    /\ ca = <<Some(<<Some(1)>>), None>>
    /\ res = Err("all indices are null")

----------------------------------------------------------------------------
(* Claims about lst_join *)

ElementText(o) == IF IsSome(o) THEN Unwrap(o) ELSE NullText

\* the elements from the k-th on, each preceded by the separator
RECURSIVE JoinedFrom(_, _, _)
JoinedFrom(vals, k, separator) ==
    IF k > Len(vals) THEN << >>
    ELSE separator \o ElementText(vals[k]) \o JoinedFrom(vals, k + 1, separator)

Joined(vals, separator) ==
    IF vals = << >> THEN << >>
    ELSE ElementText(vals[1]) \o JoinedFrom(vals, 2, separator)

\* C10: on a string list column lst_join gives, for every non-null row, the
\* row's elements in order with one separator between consecutive elements
\* and none after the last, "null" for a null element and the empty string
\* for an empty row, whatever rows came before; on another inner type it
\* fails.
C10_Join ==
    (pc = "done" /\ op = "lst_join") =>
        IF dtype = "Utf8"
        THEN /\ res.ok
             /\ Len(res.col) = Len(ca)
             /\ \A i \in 1..Len(ca) :
                   IsSome(ca[i]) =>
                       res.col[i] = Some(Joined(Unwrap(ca[i]), args.separator))
        ELSE ~res.ok

\* [["a", null], [""]] joined with ",": the second row is "" after a first
\* row that left "a,null," in the buffer
C10_Witness ==
    /\ pc = "done" /\ op = "lst_join" /\ dtype = "Utf8"
    /\ ca = <<Some(<<Some(<<"a">>), None>>), Some(<<Some(<< >>)>>)>>
    /\ args.separator = <<",">>
    /\ res = Ok(<<Some(<<"a", ",", "n", "u", "l", "l">>), Some(<< >>)>>)

----------------------------------------------------------------------------
(* Claims about every operation *)

NullPropagatingOps ==
    {"lst_join", "lst_sum", "lst_mean", "lst_arg_min", "lst_arg_max", "lst_lengths",
     "lst_take", "lst_concat", "lst_sort", "lst_reverse", "lst_shift", "lst_slice"}

\* C4: a null receiver row gives a null output row, for every structural and
\* reduction operation.
C4_NullPropagation ==
    (pc = "done" /\ op \in NullPropagatingOps /\ res.ok) =>
        \A i \in 1..Min2(Len(ca), Len(res.col)) :
            ~IsSome(ca[i]) => res.col[i] = None

\* C5: lst_lengths gives the number of elements of every non-null row, 0 for
\* an empty one, and null for a null row, whatever the chunks are.
C5_Lengths ==
    (pc = "done" /\ op = "lst_lengths") =>
        /\ res.ok
        /\ Len(res.col) = Len(ca)
        /\ \A i \in 1..Len(ca) :
              res.col[i] = IF IsSome(ca[i]) THEN Some(Len(Unwrap(ca[i]))) ELSE None

----------------------------------------------------------------------------
(* Claims about lst_get *)

GetDone == pc = "done" /\ op = "lst_get"

\* C11: lst_get(idx) never fails, returns one entry per row, and for every
\* non-null row of length len the entry is element idx when 0 <= idx < len,
\* element len + idx when -len <= idx < 0, and null otherwise
C11_Get ==
    GetDone =>
        /\ res.ok
        /\ Len(res.col) = Len(ca)
        /\ \A i \in 1..Len(ca) :
              IsSome(ca[i]) =>
                  LET row == Unwrap(ca[i])
                      len == Len(row)
                      idx == args.idx
                  IN  res.col[i] = (CASE 0 <= idx /\ idx < len -> row[idx + 1]
                                      [] 0 - len <= idx /\ idx < 0 -> row[len + idx + 1]
                                      [] OTHER -> None)

\* lst_get(-1) on the two chunks [[1, 2]] and [[1]] gives [2, 1]
C11_Witness ==
    /\ GetDone
    /\ ca = <<Some(<<Some(1), Some(2)>>), Some(<<Some(1)>>)>>
    /\ args.idx = 0 - 1
    /\ args.split = 1
    /\ res = Ok(<<Some(2), Some(1)>>)

\* lst_get(MaxRowLen + 1), past the end of every row, gives nulls and no error
C11_WitnessOutOfRange ==
    /\ GetDone
    /\ ca = <<Some(<<Some(1), Some(2)>>), Some(<<Some(1)>>)>>
    /\ args.idx = MaxRowLen + 1
    /\ res = Ok(<<None, None>>)

----------------------------------------------------------------------------
(* Claim about the two paths of lst_concat *)

\* the operands of the call, each broadcast to the receiver's length
BroadcastOperands == cast_rhs(args.other, Len(ca), TRUE).other

\* the column the general path builds from the broadcast operands
GeneralPathOnBroadcast ==
    general_loop(ca, BroadcastOperands, 0, [k \in 1..Len(args.other) |-> 0], << >>)

\* C12: for a receiver of length other than 1 and operands that all have
\* length 1 (null or not, none at all included) the column of the broadcast
\* path equals, in every row's values and nullity, the column the general
\* path produces once every operand is broadcast to the receiver's length
C12_PathsAgree ==
    (ConcatDone /\ BroadcastCase) =>
        /\ \A k \in 1..Len(args.other) : Len(BroadcastOperands[k]) = Len(ca)
        /\ res = GeneralPathOnBroadcast

\* two non-null operands on a receiver with a null and a non-null row
C12_Witness ==
    /\ ConcatDone
    /\ BroadcastCase
    /\ ca = <<None, Some(<<Some(1)>>)>>
    /\ args.other = << <<Some(<<Some(11)>>)>>, <<Some(<<Some(12)>>)>> >>
    /\ res = Ok(<<None, Some(<<Some(1), Some(11), Some(12)>>)>>)
    /\ GeneralPathOnBroadcast = res

\* a null operand: both paths give a column of nulls
C12_WitnessNullOperand ==
    /\ ConcatDone
    /\ BroadcastCase
    /\ ca = <<Some(<<Some(1)>>), Some(<< >>)>>
    /\ args.other = << <<Some(<<Some(11)>>)>>, <<None>> >>
    /\ res = Ok(<<None, None>>)
    /\ GeneralPathOnBroadcast = res

\* no operand at all: both paths give the receiver
C12_WitnessNoOperand ==
    /\ ConcatDone
    /\ BroadcastCase
    /\ Len(ca) = 2
    /\ args.other = << >>
    /\ res = Ok(ca)
    /\ GeneralPathOnBroadcast = res

====
